---- MODULE Spec2Model ----
(***************************************************************************)
(* Model of metrics/foundations_sru.py: the SRU queue metrics collector.   *)
(*                                                                         *)
(* collect() calls sru_queue_count(), sru_verified_and_ready_count() and   *)
(* sru_ages(), prints five groups of values and, unless dryrun, fills one  *)
(* registry with five gauges and pushes it.  The program is sequential;    *)
(* pc is the position in the code, and an uncaught exception moves pc to   *)
(* "aborted" with exc naming the exception and the step that raised it.    *)
(***************************************************************************)
EXTENDS Integers, Sequences, FiniteSets, TLC

(***************************************************************************)
(* Bounds of the model.                                                    *)
(***************************************************************************)
MaxUploads == 3
MaxTables == 2
MaxRows == 2
TicksPerDay == 2
Now == 100

(***************************************************************************)
(* Program constants.                                                      *)
(***************************************************************************)
BacklogThreshold == 10
MinDaysInProposed == 7

(***************************************************************************)
(* Python values.                                                          *)
(***************************************************************************)
EmptyDict == [k \in {} |-> 0]
Dict(items) == [none |-> FALSE, items |-> items]
NoneVal == [none |-> TRUE, items |-> EmptyDict]
Keys(d) == DOMAIN d.items
NoExc == [type |-> "", at |-> ""]
Raise(type, at) == [type |-> type, at |-> at]

(***************************************************************************)
(* The series catalog (ubuntu.series, ubuntu.current_series).              *)
(***************************************************************************)
AllSeries == <<"A", "B", "C">>
SeriesNames == {AllSeries[i] : i \in 1..Len(AllSeries)}

RECURSIVE FilterSeq(_, _)
FilterSeq(s, keep) ==
    IF s = <<>> THEN <<>>
    ELSE IF Head(s) \in keep THEN <<Head(s)>> \o FilterSeq(Tail(s), keep)
    ELSE FilterSeq(Tail(s), keep)

\* [s for s in ubuntu.series if s.active]
ActiveSeries(act) == FilterSeq(AllSeries, act)

\* list.remove(x): drops the first element equal to x
RECURSIVE ListRemove(_, _)
ListRemove(s, x) ==
    IF s = <<>> THEN <<>>
    ELSE IF Head(s) = x THEN Tail(s)
    ELSE <<Head(s)>> \o ListRemove(Tail(s), x)

InList(s, x) == \E i \in 1..Len(s) : s[i] = x

StableSeriesKeepCurrent(act, cur) == ActiveSeries(act)

\* stable_series after lines 31-32 / 47-48
StableSeries(act, cur) == ListRemove(ActiveSeries(act), cur)

(***************************************************************************)
(* Upload records: date_created, in ticks.                                 *)
(***************************************************************************)
CreatedOffsets == {-1, 7, 21, 24, 50}
CreatedTimes == {Now - o : o \in CreatedOffsets}
UploadLists(n) == UNION {[1..k -> CreatedTimes] : k \in 0..n}
CoarseUploads == {<<>>, <<Now - 50>>}

\* (today - upload.date_created.replace(tzinfo=None)).days : timedelta.days floors
AgeInDays(td, created) == (td - created) \div TicksPerDay

NewOldestUnguarded(age, oldest) == age

\* lines 63-64
NewOldest(age, oldest) == IF age > oldest THEN age ELSE oldest

IsBackloggedInclusive(age) == age >= BacklogThreshold

\* line 67
IsBacklogged(age) == age > BacklogThreshold


(***************************************************************************)
(* The report: tables, rows (tr), cells (td), bug links (a).               *)
(* A cell's text is a sequence of words and "x in text" is the search for  *)
(* a contiguous run of words; a cell's string is a sequence of characters, *)
(* or None when the cell has no single string child.                       *)
(***************************************************************************)
Heading == "Upload queue status at a glance:"
ReleaseTexts == {Heading, "Xenial", "Bionic"}
TableHeaders == [has_id : BOOLEAN, release : ReleaseTexts]
CoarseHeaders == {[has_id |-> TRUE, release |-> "Xenial"],
                  [has_id |-> FALSE, release |-> "Bionic"]}

\* sub in text
Contains(sub, text) ==
    \E i \in 0..(Len(text) - Len(sub)) :
        \A j \in 1..Len(sub) : text[i + j] = sub[j]

FailureMarkers ==
    {<<"Failed">>, <<"Dependency", "wait">>, <<"Cancelled">>,
     <<"Regression", "in", "autopkgtest">>}

\* lines 108-111
IsFailure(failure) == \E m \in FailureMarkers : Contains(m, failure)

Digits == <<"0", "1", "2", "3", "4", "5", "6", "7", "8", "9">>
IsDigit(c) == \E d \in 1..Len(Digits) : Digits[d] = c
DigitValue(c) == (CHOOSE d \in 1..Len(Digits) : Digits[d] = c) - 1

RECURSIVE StripLeft(_)
StripLeft(cs) == IF cs # <<>> /\ Head(cs) = " " THEN StripLeft(Tail(cs)) ELSE cs

RECURSIVE StripRight(_)
StripRight(cs) ==
    IF cs # <<>> /\ cs[Len(cs)] = " " THEN StripRight(SubSeq(cs, 1, Len(cs) - 1)) ELSE cs

RECURSIVE DigitsValue(_, _)
DigitsValue(cs, acc) ==
    IF cs = <<>> THEN acc ELSE DigitsValue(Tail(cs), acc * Len(Digits) + DigitValue(Head(cs)))

\* int(str): surrounding whitespace dropped, an optional sign, then digits only
IntOf(chars) ==
    LET body == StripRight(StripLeft(chars))
        signed == body # <<>> /\ Head(body) \in {"-", "+"}
        digits == IF signed THEN Tail(body) ELSE body
    IN  IF digits = <<>> \/ \E i \in 1..Len(digits) : ~IsDigit(digits[i])
        THEN [ok |-> FALSE, value |-> 0]
        ELSE [ok |-> TRUE,
              value |-> IF signed /\ Head(body) = "-"
                        THEN 0 - DigitsValue(digits, 0) ELSE DigitsValue(digits, 0)]

OldEnoughStrict(days) == days > MinDaysInProposed

\* line 113
OldEnough(days) == days >= MinDaysInProposed

Str(chars) == [none |-> FALSE, chars |-> chars]
StrNone == [none |-> TRUE, chars |-> <<>>]
Link(classes) == [has_class |-> TRUE, class |-> classes]
LinkNoClass == [has_class |-> FALSE, class |-> {}]
Cell(text, string, links) == [text |-> text, string |-> string, links |-> links]
FillerCell == Cell(<<>>, Str(<<>>), <<>>)

\* a row of n cells: status text first, bug links fifth, days-in-proposed sixth
MkRow(n, failure, days, bugs) ==
    [i \in 1..n |->
        IF i = 1 THEN Cell(failure, Str(<<>>), <<>>)
        ELSE IF i = 5 THEN Cell(<<>>, Str(<<>>), bugs)
        ELSE IF i = 6 THEN Cell(<<>>, days, <<>>)
        ELSE FillerCell]

StatusTexts ==
    {<<>>, <<"Failed", "to", "build">>, <<"Dependency">>, <<"Cancelled">>,
     <<"autopkgtest", "Regression", "in", "autopkgtest">>}
DaysStrings == {Str(<<"6">>), Str(<<"7">>), Str(<<" ", "1", "2">>), Str(<<"x">>), StrNone}
Verified == Link({"verified"})
Unverified == Link({"verification-needed"})
BugLists ==
    {<<>>, <<Verified>>, <<Verified, Unverified>>, <<Verified, Verified>>,
     <<Unverified, LinkNoClass>>, <<Verified, LinkNoClass>>}
Rows ==
    {MkRow(0, <<>>, StrNone, <<>>)}
      \cup {MkRow(n, f, StrNone, <<>>) : n \in {1, 5}, f \in StatusTexts}
      \cup {MkRow(6, f, d, b) : f \in StatusTexts, d \in DaysStrings, b \in BugLists}
CoarseRows ==
    {MkRow(0, <<>>, StrNone, <<>>),
     MkRow(6, <<>>, Str(<<"7">>), <<Verified>>),
     MkRow(6, <<"Cancelled">>, Str(<<"7">>), <<Verified>>),
     MkRow(5, <<>>, StrNone, <<>>)}

\* lines 115-119: "verified", "unverified", or the KeyError of bug['class']
RECURSIVE BugsScan(_)
BugsScan(bugs) ==
    IF bugs = <<>> THEN "verified"
    ELSE IF ~Head(bugs).has_class THEN "KeyError"
    ELSE IF "verified" \notin Head(bugs).class THEN "unverified"
    ELSE BugsScan(Tail(bugs))

\* lines 103-121 for one tr: "skip", "count", or the exception raised
RowOutcome(cols) ==
    IF Len(cols) = 0 THEN "skip"
    ELSE IF IsFailure(cols[1].text) THEN "skip"
    ELSE IF Len(cols) < 6 THEN "IndexError"
    ELSE IF cols[6].string.none THEN "TypeError"
    ELSE IF ~IntOf(cols[6].string.chars).ok THEN "ValueError"
    ELSE IF OldEnough(IntOf(cols[6].string.chars).value)
         THEN LET scan == BugsScan(cols[5].links) IN
              IF scan = "verified" THEN "count"
              ELSE IF scan = "unverified" THEN "skip"
              ELSE scan
    ELSE "skip"

QualifiesIgnoringHeading(t) == t.has_id

\* lines 93-98
Qualifies(t) == t.has_id /\ t.release # Heading

(***************************************************************************)
(* The three conditions of a ready row, stated on the row as a whole: no   *)
(* failure marker in the first cell, an integer of at least 7 in the sixth *)
(* cell, and the verified class on every bug link of the fifth cell.       *)
(***************************************************************************)
RowReady(cols) ==
    /\ Len(cols) >= 6
    /\ \A m \in FailureMarkers : ~Contains(m, cols[1].text)
    /\ ~cols[6].string.none
    /\ IntOf(cols[6].string.chars).ok
    /\ IntOf(cols[6].string.chars).value >= 7
    /\ \A i \in 1..Len(cols[5].links) :
          cols[5].links[i].has_class /\ "verified" \in cols[5].links[i].class

VARIABLES
    entry,              \* the function called: collect, sru_ages, ...
    pc,                 \* position in the code
    exc,                \* the uncaught exception, if any
    dryrun,             \* collect's parameter
    active, current,    \* the catalog: names of active series, current series
    stable_series, si,  \* the list iterated and the number of its series done
    per_series,         \* the dict being built (sru_queue_count, sru_ages)
    uploads, idx, today,    \* sru_ages: the series' uploads, how many are processed
    oldest_age_in_days, backlog_age, backlog_count,
    sru_queues, ready_srus, sru_age_data,   \* the three results held by collect
    tables_left, trs_left,  \* tables and rows of the report not yet visited
    release, tag,           \* the current table's release text, the current tr
    doc_tables,             \* history: the table headers visited so far
    ready_rows,             \* history: rows of the current table that were RowReady
    parse_failed, logged,   \* HTMLParseError was raised; logging.error messages
    console,                \* the groups printed
    registry, pushes, pushed,   \* the gauges set, pushes made, registry pushed
    events                  \* history: the external steps taken, in order

vars == <<entry, pc, exc, dryrun, active, current, stable_series, si, per_series,
          uploads, idx, today, oldest_age_in_days, backlog_age, backlog_count,
          sru_queues, ready_srus, sru_age_data,
          tables_left, doc_tables, release, trs_left, tag, ready_rows,
          parse_failed, logged, console, registry, pushes, pushed, events>>

catalogVars == <<entry, dryrun, active, current>>
agesLocals == <<uploads, idx, today, oldest_age_in_days, backlog_age, backlog_count>>
reportLocals == <<tables_left, doc_tables, release, trs_left, tag, ready_rows>>
outputVars == <<console, registry, pushes, pushed>>

Event(kind, fn) == [kind |-> kind, fn |-> fn]

\* where a function's return leads: back into collect, or out of the program
ReturnTo(fn, next) == IF entry = fn THEN "done" ELSE next

Abort(type, at) == pc' = "aborted" /\ exc' = Raise(type, at)

(***************************************************************************)
(* The state before the first statement of the function called.            *)
(***************************************************************************)
InitAt(fn, start) ==
    /\ entry = fn
    /\ pc = start
    /\ exc = NoExc
    /\ dryrun \in BOOLEAN
    /\ active \in SUBSET SeriesNames
    /\ current \in SeriesNames
    /\ stable_series = <<>> /\ si = 0 /\ per_series = EmptyDict
    /\ uploads = <<>> /\ idx = 0 /\ today = Now
    /\ oldest_age_in_days = 0 /\ backlog_age = 0 /\ backlog_count = 0
    /\ sru_queues = EmptyDict /\ ready_srus = Dict(EmptyDict) /\ sru_age_data = EmptyDict
    /\ tables_left = 0 /\ doc_tables = {} /\ release = "" /\ trs_left = 0
    /\ tag = <<>> /\ ready_rows = 0
    /\ parse_failed = FALSE /\ logged = <<>>
    /\ console = <<>> /\ registry = EmptyDict /\ pushes = 0 /\ pushed = EmptyDict
    /\ events = <<>>

(***************************************************************************)
(* sru_queue_count, lines 28-40.                                           *)
(***************************************************************************)
\* collect line 128 -> 129
AfterQueueCountSkipReport == "ages_enum"

AfterQueueCount == "report_fetch"

\* lines 30-34: get_ubuntu, the active series, remove the current one
CountEnum ==
    /\ pc = "count_enum"
    /\ events' = Append(events, Event("enumerate", "sru_queue_count"))
    /\ \/ /\ Abort("TransportError", "enumerate")
          /\ UNCHANGED <<stable_series, si, per_series>>
       \/ /\ ~InList(ActiveSeries(active), current)
          /\ Abort("ValueError", "enumerate")
          /\ UNCHANGED <<stable_series, si, per_series>>
       \/ /\ InList(ActiveSeries(active), current)
          /\ stable_series' = StableSeries(active, current)
          /\ si' = 0
          /\ per_series' = EmptyDict
          /\ pc' = "count_loop"
          /\ exc' = exc
    /\ UNCHANGED <<catalogVars, agesLocals, sru_queues, ready_srus, sru_age_data,
                   reportLocals, parse_failed, logged, outputVars>>

\* lines 35-38: one getPackageUploads per series, and its len
CountQuery(U) ==
    /\ pc = "count_loop"
    /\ si < Len(stable_series)
    /\ events' = Append(events, Event("query", "sru_queue_count"))
    /\ \/ /\ Abort("TransportError", "query")
          /\ UNCHANGED <<si, per_series>>
       \/ /\ \E ups \in U :
                per_series' = (stable_series[si + 1] :> Len(ups)) @@ per_series
          /\ si' = si + 1
          /\ UNCHANGED <<pc, exc>>
    /\ UNCHANGED <<catalogVars, stable_series, agesLocals, sru_queues, ready_srus,
                   sru_age_data, reportLocals, parse_failed, logged, outputVars>>

\* line 40
CountReturn ==
    /\ pc = "count_loop"
    /\ si = Len(stable_series)
    /\ sru_queues' = per_series
    /\ pc' = ReturnTo("sru_queue_count", AfterQueueCount)
    /\ stable_series' = <<>> /\ si' = 0 /\ per_series' = EmptyDict
    /\ UNCHANGED <<catalogVars, exc, agesLocals, ready_srus, sru_age_data,
                   reportLocals, parse_failed, logged, outputVars, events>>

(***************************************************************************)
(* sru_ages, lines 43-75.                                                  *)
(***************************************************************************)
\* lines 46-50
AgesEnum ==
    /\ pc = "ages_enum"
    /\ events' = Append(events, Event("enumerate", "sru_ages"))
    /\ \/ /\ Abort("TransportError", "enumerate")
          /\ UNCHANGED <<stable_series, si, per_series>>
       \/ /\ ~InList(ActiveSeries(active), current)
          /\ Abort("ValueError", "enumerate")
          /\ UNCHANGED <<stable_series, si, per_series>>
       \/ /\ InList(ActiveSeries(active), current)
          /\ stable_series' = StableSeries(active, current)
          /\ si' = 0
          /\ per_series' = EmptyDict
          /\ pc' = "ages_loop"
          /\ exc' = exc
    /\ UNCHANGED <<catalogVars, agesLocals, sru_queues, ready_srus, sru_age_data,
                   reportLocals, parse_failed, logged, outputVars>>

\* lines 52-57: the series' uploads, the accumulators reset, today read
AgesQuery(U) ==
    /\ pc = "ages_loop"
    /\ si < Len(stable_series)
    /\ events' = Append(events, Event("query", "sru_ages"))
    /\ \/ /\ Abort("TransportError", "query")
          /\ UNCHANGED agesLocals
       \/ /\ uploads' \in U
          /\ idx' = 0
          /\ oldest_age_in_days' = 0
          /\ backlog_age' = 0
          /\ backlog_count' = 0
          /\ today' = Now
          /\ pc' = "ages_uploads"
          /\ exc' = exc
    /\ UNCHANGED <<catalogVars, stable_series, si, per_series, sru_queues, ready_srus,
                   sru_age_data, reportLocals, parse_failed, logged, outputVars>>

\* lines 58-69: one upload of the series
AgesUpload ==
    /\ pc = "ages_uploads"
    /\ idx < Len(uploads)
    /\ LET age_in_days == AgeInDays(today, uploads[idx + 1]) IN
        /\ oldest_age_in_days' = NewOldest(age_in_days, oldest_age_in_days)
        /\ IF IsBacklogged(age_in_days)
           THEN /\ backlog_age' = backlog_age + (age_in_days - BacklogThreshold)
                /\ backlog_count' = backlog_count + 1
           ELSE UNCHANGED <<backlog_age, backlog_count>>
    /\ idx' = idx + 1
    /\ UNCHANGED <<catalogVars, pc, exc, stable_series, si, per_series, uploads, today,
                   sru_queues, ready_srus, sru_age_data, reportLocals, parse_failed,
                   logged, outputVars, events>>

\* lines 70-73
AgesStore ==
    /\ pc = "ages_uploads"
    /\ idx = Len(uploads)
    /\ per_series' =
          (stable_series[si + 1] :>
              [oldest_age_in_days |-> oldest_age_in_days,
               ten_day_backlog_count |-> backlog_count,
               ten_day_backlog_age |-> backlog_age]) @@ per_series
    /\ si' = si + 1
    /\ pc' = "ages_loop"
    /\ UNCHANGED <<catalogVars, exc, stable_series, agesLocals, sru_queues, ready_srus,
                   sru_age_data, reportLocals, parse_failed, logged, outputVars, events>>

\* line 75
AgesReturn ==
    /\ pc = "ages_loop"
    /\ si = Len(stable_series)
    /\ sru_age_data' = per_series
    /\ pc' = ReturnTo("sru_ages", "print_count")
    /\ stable_series' = <<>> /\ si' = 0 /\ per_series' = EmptyDict
    /\ uploads' = <<>> /\ idx' = 0 /\ today' = Now
    /\ oldest_age_in_days' = 0 /\ backlog_age' = 0 /\ backlog_count' = 0
    /\ UNCHANGED <<catalogVars, exc, sru_queues, ready_srus, reportLocals,
                   parse_failed, logged, outputVars, events>>

InitAges == InitAt("sru_ages", "ages_enum")
NextAges ==
    \/ AgesEnum
    \/ AgesQuery(UploadLists(MaxUploads))
    \/ AgesUpload
    \/ AgesStore
    \/ AgesReturn
SpecAges == InitAges /\ [][NextAges]_vars

(***************************************************************************)
(* sru_verified_and_ready_count, lines 78-123.                             *)
(***************************************************************************)
\* lines 82-91: urlopen().read(), BeautifulSoup(), soup.findAll('table')
ReportFetch(maxTables) ==
    /\ pc = "report_fetch"
    /\ events' = Append(events, Event("fetch", "sru_verified_and_ready_count"))
    /\ \/ /\ Abort("URLError", "fetch")
          /\ UNCHANGED <<ready_srus, tables_left, parse_failed, logged>>
       \/ /\ parse_failed' = TRUE
          /\ logged' = Append(logged, "Error parsing SRU report")
          /\ ready_srus' = NoneVal
          /\ pc' = ReturnTo("sru_verified_and_ready_count", "ages_enum")
          /\ UNCHANGED <<exc, tables_left>>
       \/ /\ ready_srus' = Dict(EmptyDict)
          /\ tables_left' \in 0..maxTables
          /\ pc' = "report_tables"
          /\ UNCHANGED <<exc, parse_failed, logged>>
    /\ UNCHANGED <<catalogVars, stable_series, si, per_series, agesLocals, sru_queues,
                   sru_age_data, doc_tables, release, trs_left, tag, ready_rows,
                   outputVars>>

\* lines 92-101: the next table; its key starts at 0 when it qualifies
ReportTable(headers, maxRows) ==
    /\ pc = "report_tables"
    /\ tables_left > 0
    /\ tables_left' = tables_left - 1
    /\ \E table \in headers :
        /\ doc_tables' = doc_tables \cup {table}
        /\ IF Qualifies(table)
           THEN /\ release' = table.release
                /\ ready_srus' = Dict((table.release :> 0) @@ ready_srus.items)
                /\ ready_rows' = 0
                /\ trs_left' \in 0..maxRows
                /\ pc' = IF trs_left' = 0 THEN "report_tables" ELSE "report_rows"
           ELSE UNCHANGED <<release, ready_srus, ready_rows, trs_left, pc>>
    /\ UNCHANGED <<catalogVars, exc, stable_series, si, per_series, agesLocals,
                   sru_queues, sru_age_data, tag, parse_failed, logged, outputVars,
                   events>>

\* line 102: for tag in trs
ReportRowNext(rows) ==
    /\ pc = "report_rows"
    /\ trs_left > 0
    /\ trs_left' = trs_left - 1
    /\ tag' \in rows
    /\ pc' = "report_row"
    /\ UNCHANGED <<catalogVars, exc, stable_series, si, per_series, agesLocals,
                   sru_queues, ready_srus, sru_age_data, tables_left, doc_tables,
                   release, ready_rows, parse_failed, logged, outputVars, events>>

\* lines 103-121: the loop body for tag
ReportRowBody ==
    /\ pc = "report_row"
    /\ LET outcome == RowOutcome(tag) IN
       IF outcome = "count"
       THEN /\ ready_srus' = Dict([ready_srus.items EXCEPT ![release] = @ + 1])
            /\ pc' = IF trs_left = 0 THEN "report_tables" ELSE "report_rows"
            /\ exc' = exc
       ELSE IF outcome = "skip"
       THEN /\ pc' = IF trs_left = 0 THEN "report_tables" ELSE "report_rows"
            /\ UNCHANGED <<ready_srus, exc>>
       ELSE /\ Abort(outcome, "row")
            /\ UNCHANGED ready_srus
    /\ ready_rows' = IF RowReady(tag) THEN ready_rows + 1 ELSE ready_rows
    /\ tag' = <<>>
    /\ UNCHANGED <<catalogVars, stable_series, si, per_series, agesLocals, sru_queues,
                   sru_age_data, tables_left, doc_tables, release, trs_left,
                   parse_failed, logged, outputVars, events>>

\* line 123
ReportReturn ==
    /\ pc = "report_tables"
    /\ tables_left = 0
    /\ pc' = ReturnTo("sru_verified_and_ready_count", "ages_enum")
    /\ release' = "" /\ ready_rows' = 0
    /\ UNCHANGED <<catalogVars, exc, stable_series, si, per_series, agesLocals,
                   sru_queues, ready_srus, sru_age_data, tables_left, doc_tables,
                   trs_left, tag, parse_failed, logged, outputVars, events>>

(***************************************************************************)
(* collect, lines 126-202.                                                 *)
(***************************************************************************)
AgeField(field) == [s \in DOMAIN sru_age_data |-> sru_age_data[s][field]]

Printed(family, lines) == [family |-> family, lines |-> lines, full |-> TRUE]
HeaderOnly(family) == [family |-> family, lines |-> EmptyDict, full |-> FALSE]

PrintGroup(at, next, family, lines) ==
    /\ pc = at
    /\ console' = Append(console, Printed(family, lines))
    /\ events' = Append(events, Event("print", "collect"))
    /\ pc' = next
    /\ UNCHANGED <<catalogVars, exc, stable_series, si, per_series, agesLocals,
                   sru_queues, ready_srus, sru_age_data, reportLocals, parse_failed,
                   logged, registry, pushes, pushed>>

\* lines 134-136
PrintCount == PrintGroup("print_count", "print_oldest", "count", sru_queues)

\* lines 138-140
PrintOldest ==
    PrintGroup("print_oldest", "print_backlog_age", "oldest_age",
               AgeField("oldest_age_in_days"))

\* lines 142-144
PrintBacklogAge ==
    PrintGroup("print_backlog_age", "print_backlog_count", "ten_day_backlog_age",
               AgeField("ten_day_backlog_age"))

\* lines 146-149
PrintBacklogCount ==
    PrintGroup("print_backlog_count", "print_ready", "ten_day_backlog_count",
               AgeField("ten_day_backlog_count"))

ShouldPushAlways(dry) == TRUE

\* line 155
ShouldPush(dry) == ~dry

\* lines 151-155: the header, then ready_srus.items(), which None does not have
PrintReady ==
    /\ pc = "print_ready"
    /\ events' = Append(events, Event("print", "collect"))
    /\ IF ready_srus.none
       THEN /\ console' = Append(console, HeaderOnly("verified_and_ready"))
            /\ Abort("AttributeError", "print")
       ELSE /\ console' = Append(console, Printed("verified_and_ready", ready_srus.items))
            /\ pc' = IF ShouldPush(dryrun) THEN "gauge_count" ELSE "done"
            /\ exc' = exc
    /\ UNCHANGED <<catalogVars, stable_series, si, per_series, agesLocals, sru_queues,
                   ready_srus, sru_age_data, reportLocals, parse_failed, logged,
                   registry, pushes, pushed>>

SetGauge(at, next, family, values) ==
    /\ pc = at
    /\ registry' = (family :> values) @@ registry
    /\ pc' = next
    /\ UNCHANGED <<catalogVars, exc, stable_series, si, per_series, agesLocals,
                   sru_queues, ready_srus, sru_age_data, reportLocals, parse_failed,
                   logged, console, pushes, pushed, events>>

\* lines 157-165
GaugeCount ==
    SetGauge("gauge_count", "gauge_oldest", "distro_sru_unapproved_proposed_count",
             sru_queues)

\* lines 167-174
GaugeOldest ==
    SetGauge("gauge_oldest", "gauge_backlog_age",
             "distro_sru_unapproved_proposed_oldest_age", AgeField("oldest_age_in_days"))

\* lines 176-183
GaugeBacklogAge ==
    SetGauge("gauge_backlog_age", "gauge_backlog_count",
             "distro_sru_unapproved_proposed_ten_day_backlog_age",
             AgeField("ten_day_backlog_age"))

\* lines 185-192
GaugeBacklogCount ==
    SetGauge("gauge_backlog_count", "gauge_ready",
             "distro_sru_unapproved_proposed_ten_day_backlog_count",
             AgeField("ten_day_backlog_count"))

\* lines 194-200
GaugeReady ==
    SetGauge("gauge_ready", "push", "distro_sru_verified_and_ready_count",
             ready_srus.items)

GaugeFamilies ==
    {"distro_sru_unapproved_proposed_count",
     "distro_sru_unapproved_proposed_oldest_age",
     "distro_sru_unapproved_proposed_ten_day_backlog_age",
     "distro_sru_unapproved_proposed_ten_day_backlog_count",
     "distro_sru_verified_and_ready_count"}

\* line 202: util.push2gateway('foundations-sru', registry)
Push ==
    /\ pc = "push"
    /\ events' = Append(events, Event("push", "collect"))
    /\ \/ /\ Abort("TransportError", "push")
          /\ UNCHANGED <<pushes, pushed>>
       \/ /\ pushes' = pushes + 1
          /\ pushed' = registry
          /\ pc' = "done"
          /\ exc' = exc
    /\ UNCHANGED <<catalogVars, stable_series, si, per_series, agesLocals, sru_queues,
                   ready_srus, sru_age_data, reportLocals, parse_failed, logged,
                   console, registry>>

(***************************************************************************)
(* Specifications: collect() as a whole; and the report parser alone, with *)
(* the full set of rows.                                                   *)
(***************************************************************************)
Init == InitAt("collect", "count_enum")
Next ==
    \/ CountEnum
    \/ CountQuery(CoarseUploads)
    \/ CountReturn
    \/ ReportFetch(MaxTables)
    \/ ReportTable(CoarseHeaders, MaxRows)
    \/ ReportRowNext(CoarseRows)
    \/ ReportRowBody
    \/ ReportReturn
    \/ AgesEnum
    \/ AgesQuery(CoarseUploads)
    \/ AgesUpload
    \/ AgesStore
    \/ AgesReturn
    \/ PrintCount
    \/ PrintOldest
    \/ PrintBacklogAge
    \/ PrintBacklogCount
    \/ PrintReady
    \/ GaugeCount
    \/ GaugeOldest
    \/ GaugeBacklogAge
    \/ GaugeBacklogCount
    \/ GaugeReady
    \/ Push
Spec == Init /\ [][Next]_vars

InitReport ==
    /\ InitAt("sru_verified_and_ready_count", "report_fetch")
    /\ dryrun = FALSE
    /\ active = {}
    /\ current = AllSeries[1]
NextReport ==
    \/ ReportFetch(MaxTables)
    \/ ReportTable(TableHeaders, MaxRows)
    \/ ReportRowNext(Rows)
    \/ ReportRowBody
    \/ ReportReturn
SpecReport == InitReport /\ [][NextReport]_vars

(***************************************************************************)
(* Properties.                                                             *)
(***************************************************************************)
Max(S) == CHOOSE m \in S : \A x \in S : x <= m

RECURSIVE SumOver(_, _)
SumOver(f, S) ==
    IF S = {} THEN 0
    ELSE LET i == CHOOSE x \in S : TRUE IN f[i] + SumOver(f, S \ {i})

\* the whole-day ages of the uploads returned for the series
Ages == [i \in 1..Len(uploads) |-> AgeInDays(today, uploads[i])]
AgeSet == {Ages[i] : i \in 1..Len(uploads)}
Backlogged == {i \in 1..Len(uploads) : Ages[i] > 10}
Excess == [i \in 1..Len(uploads) |-> Ages[i] - 10]

\* a series of sru_ages has just been stored, and uploads are still its uploads
SeriesStored == pc = "ages_loop" /\ si > 0
Stored == per_series[stable_series[si]]

\* C1 as stated: for every list of ages the stored oldest_age_in_days is max(ai)
\* (0 for an empty list), ten_day_backlog_count is the number of ai > 10 and
\* ten_day_backlog_age is the sum of ai - 10 over those ai.
C1_StatsAsStated ==
    SeriesStored =>
        /\ Stored.oldest_age_in_days = (IF uploads = <<>> THEN 0 ELSE Max(AgeSet))
        /\ Stored.ten_day_backlog_count = Cardinality(Backlogged)
        /\ Stored.ten_day_backlog_age = SumOver(Excess, Backlogged)

\* C1 amended: the stored oldest_age_in_days is the maximum of 0 and the ages
\* (so 0 for an empty list and for a list of negative ages only);
\* ten_day_backlog_count is the number of ages > 10 (an age of 10 is not counted)
\* and ten_day_backlog_age is the sum of age - 10 over exactly those ages.
C1_Stats ==
    SeriesStored =>
        /\ Stored.oldest_age_in_days = Max(AgeSet \cup {0})
        /\ Stored.ten_day_backlog_count = Cardinality(Backlogged)
        /\ Stored.ten_day_backlog_age = SumOver(Excess, Backlogged)

C1_Witness ==
    /\ SeriesStored
    /\ Ages = <<3, 12, 25>>
    /\ Stored = [oldest_age_in_days |-> 25, ten_day_backlog_count |-> 2,
                 ten_day_backlog_age |-> 17]

InAges == pc \in {"ages_loop", "ages_uploads"}

C10_State ==
    pc = "ages_uploads" =>
        /\ oldest_age_in_days >= 0
        /\ 0 <= backlog_count /\ backlog_count <= idx
        /\ backlog_age >= backlog_count
        /\ backlog_count > 0 => backlog_age <= backlog_count * (oldest_age_in_days - 10)
        /\ backlog_count > 0 <=> oldest_age_in_days > 10

C10_Step ==
    /\ pc = "ages_uploads" /\ pc' = "ages_uploads" =>
          /\ oldest_age_in_days' >= oldest_age_in_days
          /\ backlog_count' >= backlog_count
          /\ backlog_age' >= backlog_age
    /\ pc = "ages_loop" /\ pc' = "ages_uploads" =>
          /\ oldest_age_in_days' = 0 /\ backlog_count' = 0 /\ backlog_age' = 0
          /\ idx' = 0
    /\ InAges /\ pc' \in {"ages_loop", "ages_uploads"} =>
          \A s \in DOMAIN per_series :
              s \in DOMAIN per_series' /\ per_series'[s] = per_series[s]

\* C10: the loop invariant of sru_ages.  After any prefix of a series' uploads,
\* for any integer ages: oldest >= 0, 0 <= count <= uploads processed,
\* backlog age >= count, backlog age <= count * (oldest - 10) when count > 0,
\* count > 0 iff oldest > 10; no value decreases as uploads are processed; each
\* series starts from 0 and leaves the stats stored for earlier series alone.
C10_LoopInvariant == [](C10_State) /\ [][C10_Step]_vars

C10_Witness ==
    /\ pc = "ages_uploads"
    /\ si = 1
    /\ idx = 3
    /\ \E i \in 1..idx : Ages[i] < 0
    /\ backlog_count = 2
    /\ per_series[stable_series[1]].ten_day_backlog_count = 1

ExpectedSeries == {s \in SeriesNames : s \in active /\ s # current}

\* C4: the keys of the results of sru_queue_count and of sru_ages are exactly the
\* names of the active series other than the current series.
C4_SeriesKeys ==
    /\ pc \notin {"count_enum", "count_loop", "aborted"} =>
          DOMAIN sru_queues = ExpectedSeries
    /\ pc \in {"print_count", "print_oldest", "print_backlog_age",
               "print_backlog_count", "print_ready", "gauge_count", "gauge_oldest",
               "gauge_backlog_age", "gauge_backlog_count", "gauge_ready", "push",
               "done"} =>
          DOMAIN sru_age_data = ExpectedSeries

C4_Witness ==
    /\ pc = "done"
    /\ active = {"A", "B", "C"} /\ current = "C"
    /\ DOMAIN sru_queues = {"A", "B"}
    /\ DOMAIN sru_age_data = {"A", "B"}

Ended == pc \in {"done", "aborted"}
PushEvents == {i \in 1..Len(events) : events[i].kind = "push"}
RegistryFilled ==
    /\ DOMAIN registry = GaugeFamilies
    /\ registry["distro_sru_unapproved_proposed_count"] = sru_queues
    /\ registry["distro_sru_unapproved_proposed_oldest_age"] =
          AgeField("oldest_age_in_days")
    /\ registry["distro_sru_unapproved_proposed_ten_day_backlog_age"] =
          AgeField("ten_day_backlog_age")
    /\ registry["distro_sru_unapproved_proposed_ten_day_backlog_count"] =
          AgeField("ten_day_backlog_count")
    /\ registry["distro_sru_verified_and_ready_count"] = ready_srus.items

\* C3 as stated: in any run the push is invoked zero times when dryrun is true
\* and exactly once when dryrun is false, after the five gauges are populated.
C3_PushAsStated ==
    Ended =>
        /\ dryrun => Cardinality(PushEvents) = 0
        /\ ~dryrun => Cardinality(PushEvents) = 1 /\ RegistryFilled

\* C3 amended: the push is invoked zero times when dryrun is true and at most
\* once when it is false; a run with dryrun false that ends normally has invoked
\* it exactly once, and a run that raised before line 202 has not invoked it;
\* whenever it is invoked, all five gauge families are populated in the one
\* registry, which is the registry pushed.
C3_PushDiscipline ==
    /\ dryrun => Cardinality(PushEvents) = 0 /\ pushes = 0
    /\ Cardinality(PushEvents) <= 1 /\ pushes <= Cardinality(PushEvents)
    /\ pc = "done" /\ ~dryrun => Cardinality(PushEvents) = 1 /\ pushes = 1
    /\ pc = "aborted" /\ exc.at # "push" => Cardinality(PushEvents) = 0
    /\ Cardinality(PushEvents) = 1 => RegistryFilled
    /\ pushes = 1 => pushed = registry

C3_Witness ==
    /\ pc = "done" /\ ~dryrun
    /\ pushes = 1
    /\ RegistryFilled
    /\ \E s \in DOMAIN sru_queues : sru_queues[s] > 0
    /\ \E r \in Keys(ready_srus) : ready_srus.items[r] > 0

Kinds(ks) == {i \in 1..Len(events) : events[i].kind \in ks}

\* C8 as stated: series enumeration, then all upload queries, then the one report
\* fetch, then console output, then the optional push; no upload query and no
\* series enumeration after the report fetch.
C8_OrderAsStated ==
    /\ \A i \in Kinds({"fetch"}) : \A j \in Kinds({"enumerate", "query"}) : j < i
    /\ \A i \in Kinds({"print"}) : \A j \in Kinds({"enumerate", "query", "fetch"}) : j < i
    /\ \A i \in Kinds({"push"}) : \A j \in 1..Len(events) : j <= i

Rank(e) ==
    CASE e.kind = "enumerate" /\ e.fn = "sru_queue_count" -> 1
      [] e.kind = "query" /\ e.fn = "sru_queue_count" -> 2
      [] e.kind = "fetch" -> 3
      [] e.kind = "enumerate" /\ e.fn = "sru_ages" -> 4
      [] e.kind = "query" /\ e.fn = "sru_ages" -> 5
      [] e.kind = "print" -> 6
      [] e.kind = "push" -> 7
Ranked(r) == {i \in 1..Len(events) : Rank(events[i]) = r}

\* C8 amended: the external steps occur in this order: series enumeration and one
\* upload query per series (sru_queue_count), then the single report fetch and
\* parse, then a second series enumeration and one upload query per series
\* (sru_ages), then console output, then the optional single push.  No network
\* read happens after console output begins except the push.
C8_Order ==
    /\ \A i, j \in 1..Len(events) : i < j => Rank(events[i]) <= Rank(events[j])
    /\ \A r \in {1, 3, 4, 7} : Cardinality(Ranked(r)) <= 1
    /\ \A r \in {2, 5} : Cardinality(Ranked(r)) <= Cardinality(ExpectedSeries)
    /\ Ranked(6) # {} =>
          /\ \A r \in {1, 3, 4} : Cardinality(Ranked(r)) = 1
          /\ \A r \in {2, 5} : Cardinality(Ranked(r)) = Cardinality(ExpectedSeries)

C8_Witness ==
    /\ pc = "done" /\ ~dryrun
    /\ Cardinality(ExpectedSeries) = 2
    /\ Len(events) = 13
    /\ events[4].kind = "fetch"
    /\ events[5] = Event("enumerate", "sru_ages")
    /\ events[13].kind = "push"

FamiliesPrinted == {console[i].family : i \in {j \in 1..Len(console) : console[j].full}}
QueueFamilies ==
    {"count", "oldest_age", "ten_day_backlog_age", "ten_day_backlog_count"}

\* C2: if parsing the report fails, collect() still completes: the error is
\* logged, the ready counts are treated as empty, the four queue and age families
\* are printed and, unless dryrun, pushed; the parse failure does not abort the run.
C2_ParseFailureTolerated ==
    parse_failed =>
        /\ logged # <<>>
        /\ pc = "aborted" => exc.at \in {"enumerate", "query", "push"}
        /\ pc = "done" =>
              /\ QueueFamilies \subseteq FamiliesPrinted
              /\ ~dryrun => pushes = 1

\* C9: a failure of series enumeration, of an upload query or of the report fetch
\* aborts the run before any console line and before any push; once console
\* output has begun only the push, in a run with dryrun false, can end the run
\* abnormally, and otherwise all five groups are printed in full.
C9_AbortsOnlyBeforeOutput ==
    /\ pc = "aborted" /\ exc.at \in {"enumerate", "query", "fetch"} =>
          console = <<>> /\ Cardinality(PushEvents) = 0
    /\ pc = "aborted" /\ console # <<>> => exc.at = "push" /\ ~dryrun
    /\ pc \in {"done", "push"} \/ (pc = "aborted" /\ exc.at = "push") =>
          FamiliesPrinted = QueueFamilies \cup {"verified_and_ready"}

QualifyingReleases == {t.release : t \in {u \in doc_tables : u.has_id /\ u.release # Heading}}

\* C6: the mapping of sru_verified_and_ready_count has a key exactly for the
\* tables that carry an id and are not preceded by the heading "Upload queue
\* status at a glance:"; other tables contribute no key.
C6_Keys == ~ready_srus.none => Keys(ready_srus) = QualifyingReleases

C6_Witness ==
    /\ pc = "done"
    /\ doc_tables = {[has_id |-> TRUE, release |-> Heading],
                     [has_id |-> TRUE, release |-> "Xenial"]}
    /\ Keys(ready_srus) = {"Xenial"}

C5_State == release # "" => ready_srus.items[release] = ready_rows

C5_Step ==
    pc = "report_row" =>
        /\ RowReady(tag) =>
              ready_srus'.items = [ready_srus.items EXCEPT ![release] = @ + 1]
        /\ ~RowReady(tag) => ready_srus' = ready_srus

\* C5: a row with at least one data cell adds 1 to its release's ready count if
\* and only if its first cell contains none of the four failure markers, its
\* sixth cell holds an integer >= 7 and every bug link of its fifth cell carries
\* the verified class; the release's count is the number of such rows of its table.
C5_RowClassification == [](C5_State) /\ [][C5_Step]_vars

C5_Witness ==
    /\ pc = "report_row"
    /\ trs_left = 0
    /\ Len(tag) = 6
    /\ Contains(<<"Cancelled">>, tag[1].text)
    /\ tag[6].string = Str(<<"7">>)
    /\ tag[5].links = <<Verified>>
    /\ ready_srus.items[release] = 1
    /\ ready_rows = 1

\* C7: a row that does not match the expected shape (fewer than six cells, a
\* sixth cell that is not an integer, a bug link without a class attribute) is
\* skipped: it raises no error and the other rows and tables are still counted.
C7_MalformedRowsSkipped == ~(pc = "aborted" /\ exc.at = "row")

====
